---- MODULE Spec2Model ----
(***************************************************************************)
(* Model of replication.py: the scoped environment loader, main() as it is *)
(* written, the descriptor builders, and the token / fetch-and-post /      *)
(* tally block of lines 178-282.                                           *)
(*                                                                         *)
(* A Python str is a string, whose code points CodePoints gives; bytes are *)
(* a sequence of 0..255; the result of base64 is a sequence of             *)
(* one-character strings. None is the string "None".                       *)
(***************************************************************************)
EXTENDS Integers, Sequences, FiniteSets, TLC

None == "None"

(* ---- bounds of the model ---- *)
NumAssets == 2
NumSuffixes == 2
MaxIds == 2
MaxLines == 2

(* ---- constants of main(), lines 49-58 ---- *)
SM_URN_PREFIX == "urn%3Aag.em%3Asm%3A"

SM_URN_SUFFIX == <<"%3Apcf%3A1.0.0", "%3Ahs%3A1.0.0", "%3Anameplate%3A1.0.0">>

ASSETS == <<"train.1", "measuring_wagon", "locomotive.cargo", "cargo_wagon.1">>

\* the model iterates the first NumAssets assets and the first NumSuffixes suffixes
Assets == SubSeq(ASSETS, 1, NumAssets)
Suffixes == SubSeq(SM_URN_SUFFIX, 1, NumSuffixes)

DATA_PLANE_URL == "123"
SUBPROTOCOL_BODY == "id=123;dspEndpoint=http://edc.control.plane/api/v1/dsp"

(* ---- the str values of the model and their code points ---- *)
\* the submodel ids the source service serves (the decoded urns) and the ids
\* create_submodel_descriptor is called with on its own; "<u-umlaut>" and "<euro>"
\* name the one-character strings U+00FC and U+20AC
CodePoints ==
  ("urn:ag.em:sm:train.1:pcf:1.0.0" :>
     <<117, 114, 110, 58, 97, 103, 46, 101, 109, 58, 115, 109, 58, 116, 114, 97, 105, 110, 46, 49, 58, 112, 99, 102, 58, 49, 46, 48, 46, 48>>) @@
  ("urn:ag.em:sm:train.1:hs:1.0.0" :>
     <<117, 114, 110, 58, 97, 103, 46, 101, 109, 58, 115, 109, 58, 116, 114, 97, 105, 110, 46, 49, 58, 104, 115, 58, 49, 46, 48, 46, 48>>) @@
  ("urn:ag.em:sm:train.1:nameplate:1.0.0" :>
     <<117, 114, 110, 58, 97, 103, 46, 101, 109, 58, 115, 109, 58, 116, 114, 97, 105, 110, 46, 49, 58, 110, 97, 109, 101, 112, 108, 97, 116, 101, 58, 49, 46, 48, 46, 48>>) @@
  ("urn:ag.em:sm:measuring_wagon:pcf:1.0.0" :>
     <<117, 114, 110, 58, 97, 103, 46, 101, 109, 58, 115, 109, 58, 109, 101, 97, 115, 117, 114, 105, 110, 103, 95, 119, 97, 103, 111, 110, 58, 112, 99, 102, 58, 49, 46, 48, 46, 48>>) @@
  ("urn:ag.em:sm:measuring_wagon:hs:1.0.0" :>
     <<117, 114, 110, 58, 97, 103, 46, 101, 109, 58, 115, 109, 58, 109, 101, 97, 115, 117, 114, 105, 110, 103, 95, 119, 97, 103, 111, 110, 58, 104, 115, 58, 49, 46, 48, 46, 48>>) @@
  ("urn:ag.em:sm:measuring_wagon:nameplate:1.0.0" :>
     <<117, 114, 110, 58, 97, 103, 46, 101, 109, 58, 115, 109, 58, 109, 101, 97, 115, 117, 114, 105, 110, 103, 95, 119, 97, 103, 111, 110, 58, 110, 97, 109, 101, 112, 108, 97, 116, 101, 58, 49, 46, 48, 46, 48>>) @@
  ("urn:ag.em:sm:locomotive.cargo:pcf:1.0.0" :>
     <<117, 114, 110, 58, 97, 103, 46, 101, 109, 58, 115, 109, 58, 108, 111, 99, 111, 109, 111, 116, 105, 118, 101, 46, 99, 97, 114, 103, 111, 58, 112, 99, 102, 58, 49, 46, 48, 46, 48>>) @@
  ("urn:ag.em:sm:locomotive.cargo:hs:1.0.0" :>
     <<117, 114, 110, 58, 97, 103, 46, 101, 109, 58, 115, 109, 58, 108, 111, 99, 111, 109, 111, 116, 105, 118, 101, 46, 99, 97, 114, 103, 111, 58, 104, 115, 58, 49, 46, 48, 46, 48>>) @@
  ("urn:ag.em:sm:locomotive.cargo:nameplate:1.0.0" :>
     <<117, 114, 110, 58, 97, 103, 46, 101, 109, 58, 115, 109, 58, 108, 111, 99, 111, 109, 111, 116, 105, 118, 101, 46, 99, 97, 114, 103, 111, 58, 110, 97, 109, 101, 112, 108, 97, 116, 101, 58, 49, 46, 48, 46, 48>>) @@
  ("urn:ag.em:sm:cargo_wagon.1:pcf:1.0.0" :>
     <<117, 114, 110, 58, 97, 103, 46, 101, 109, 58, 115, 109, 58, 99, 97, 114, 103, 111, 95, 119, 97, 103, 111, 110, 46, 49, 58, 112, 99, 102, 58, 49, 46, 48, 46, 48>>) @@
  ("urn:ag.em:sm:cargo_wagon.1:hs:1.0.0" :>
     <<117, 114, 110, 58, 97, 103, 46, 101, 109, 58, 115, 109, 58, 99, 97, 114, 103, 111, 95, 119, 97, 103, 111, 110, 46, 49, 58, 104, 115, 58, 49, 46, 48, 46, 48>>) @@
  ("urn:ag.em:sm:cargo_wagon.1:nameplate:1.0.0" :>
     <<117, 114, 110, 58, 97, 103, 46, 101, 109, 58, 115, 109, 58, 99, 97, 114, 103, 111, 95, 119, 97, 103, 111, 110, 46, 49, 58, 110, 97, 109, 101, 112, 108, 97, 116, 101, 58, 49, 46, 48, 46, 48>>) @@
  ("a" :> <<97>>) @@
  ("ab" :> <<97, 98>>) @@
  ("ab?" :> <<97, 98, 63>>) @@
  ("ab>" :> <<97, 98, 62>>) @@
  ("<u-umlaut>" :> <<252>>) @@
  ("<euro>" :> <<8364>>)

(* ---- to_base64url, lines 28-31 ---- *)
\* str.encode("utf-8") of one code point
utf8(cp) ==
  IF cp < 128 THEN <<cp>>
  ELSE IF cp < 2048 THEN <<192 + (cp \div 64), 128 + (cp % 64)>>
  ELSE IF cp < 65536
    THEN <<224 + (cp \div 4096), 128 + ((cp \div 64) % 64), 128 + (cp % 64)>>
    ELSE <<240 + (cp \div 262144), 128 + ((cp \div 4096) % 64),
           128 + ((cp \div 64) % 64), 128 + (cp % 64)>>

RECURSIVE encode_points(_)
encode_points(cps) ==
  IF cps = <<>> THEN <<>> ELSE utf8(Head(cps)) \o encode_points(Tail(cps))

\* input_str.encode("utf-8")
encode(input_str) == encode_points(CodePoints[input_str])

UrlSafeAlphabet ==
  <<"A","B","C","D","E","F","G","H","I","J","K","L","M","N","O","P",
    "Q","R","S","T","U","V","W","X","Y","Z","a","b","c","d","e","f",
    "g","h","i","j","k","l","m","n","o","p","q","r","s","t","u","v",
    "w","x","y","z","0","1","2","3","4","5","6","7","8","9","-","_">>

Sextet(n) == UrlSafeAlphabet[n + 1]

RECURSIVE urlsafe_b64encode(_)
urlsafe_b64encode(raw) ==
  IF Len(raw) = 0 THEN <<>>
  ELSE IF Len(raw) = 1 THEN
    <<Sextet(raw[1] \div 4), Sextet((raw[1] % 4) * 16), "=", "=">>
  ELSE IF Len(raw) = 2 THEN
    <<Sextet(raw[1] \div 4), Sextet((raw[1] % 4) * 16 + (raw[2] \div 16)),
      Sextet((raw[2] % 16) * 4), "=">>
  ELSE
    <<Sextet(raw[1] \div 4), Sextet((raw[1] % 4) * 16 + (raw[2] \div 16)),
      Sextet((raw[2] % 16) * 4 + (raw[3] \div 64)), Sextet(raw[3] % 64)>>
    \o urlsafe_b64encode(SubSeq(raw, 4, Len(raw)))

RECURSIVE rstrip(_, _)
rstrip(s, ch) ==
  IF s # <<>> /\ s[Len(s)] = ch THEN rstrip(SubSeq(s, 1, Len(s) - 1), ch) ELSE s

to_base64url(input_str) == rstrip(urlsafe_b64encode(encode(input_str)), "=")

(* ---- create_submodel_descriptor, lines 139-176 ---- *)
\* the dict appended at lines 149-175
SubmodelDescriptor(submodel_id) ==
  [ id |-> submodel_id,
    semanticId |-> None,
    endpoints |-> <<
      [ interface |-> "SUBMODEL-3.0",
        protocolInformation |->
          [ href |-> <<DATA_PLANE_URL, "/">> \o to_base64url(submodel_id),
            endpointProtocol |-> "HTTP",
            endpointProtocolVersion |-> <<"1.1">>,
            subprotocol |-> "DSP",
            subprotocolBody |-> SUBPROTOCOL_BODY,
            subprotocolBodyEncoding |-> "plain",
            securityAttributes |-> <<[type |-> "NONE", key |-> "NONE", value |-> "NONE"]>> ] ] >> ]

\* the guard of line 140: not submodel_ids or not isinstance(submodel_ids, list).
\* An argument is [type, value]: type "list" with the list as value, or another
\* type (a str), whose value is not looked at.
CsdGuardRaises(arg) ==
  \/ arg.value = <<>>
  \/ arg.type # "list"

\* how many iterations of the loop of line 145 run before the return of line 176
\* is executed: the return is inside the loop body, so the first one ends the call
CsdIterations(n) == IF n >= 1 THEN 1 ELSE 0

\* the value returned for a list that passes the guard
create_submodel_descriptor(submodel_ids) ==
  [i \in 1..CsdIterations(Len(submodel_ids)) |-> SubmodelDescriptor(submodel_ids[i])]

(* ---- create_shell_descriptor, lines 82-107 (the uuid is left abstract) ---- *)
create_shell_descriptor(asset_, submodel_descriptors_) ==
  [ id |-> "urn:uuid",
    idShort |-> asset_,
    globalAssetId |-> asset_,
    submodelDescriptors |-> submodel_descriptors_ ]

(* ---- load_env_from_file, lines 8-26 ---- *)
\* A line of the file is a sequence of tokens: " ", "#", "=" or a word. The
\* environment is a function from the names that are set to their values, and an
\* optional value (the result of os.getenv) is <<>> for None and <<v>> for v.
RECURSIVE lstrip(_)
lstrip(line) == IF line # <<>> /\ Head(line) = " " THEN lstrip(Tail(line)) ELSE line

\* str.strip() of line 15
strip(line) == rstrip(lstrip(line), " ")

\* the test of line 16
IsAssignment(line) == line # <<>> /\ Head(line) # "#"

RECURSIVE find(_, _, _)
\* index of the first tok at or after position k, 0 when there is none
find(line, tok, k) ==
  IF k > Len(line) THEN 0
  ELSE IF line[k] = tok THEN k ELSE find(line, tok, k + 1)

\* line.split("=", 1) of line 17
split(line) ==
  LET k == find(line, "=", 1)
  IN IF k = 0 THEN <<line>>
     ELSE <<SubSeq(line, 1, k - 1), SubSeq(line, k + 1, Len(line))>>

getenv(e, key) == IF key \in DOMAIN e THEN <<e[key]>> ELSE <<>>

setenv(e, key, value) ==
  [k \in DOMAIN e \cup {key} |-> IF k = key THEN value ELSE e[k]]

\* lines 22-26: the finally block
Restore(e, saved) ==
  [k \in (DOMAIN e \ {q \in DOMAIN saved : saved[q] = <<>>})
          \cup {q \in DOMAIN saved : saved[q] # <<>>} |->
     IF k \in DOMAIN saved THEN saved[k][1] ELSE e[k]]

\* str.lower() on the words of the model
LowerWord(w) == IF w \in {"True", "TRUE", "true"} THEN "true" ELSE w

lower(value) == [j \in 1..Len(value) |-> LowerWord(value[j])]

\* line 61: os.getenv("DRY_RUN", "False").lower() == "true"
DryRunOf(e) ==
  LET v == getenv(e, <<"DRY_RUN">>)
  IN lower(IF v = <<>> THEN <<"False">> ELSE v[1]) = <<"true">>

\* the same block dedented to the level of main()
OrchestrationOwnerAtMainLevel == "main"

\* the function whose body holds the token step, fetch_and_post_submodels and the
\* tally loop (lines 178-282): they are indented under create_submodel_descriptor
OrchestrationOwner == "create_submodel_descriptor"

(* ---- state ---- *)
VARIABLES
  pc,                   \* position of the running code
  exc,                  \* the exception that ended the run, or None
  submodel_ids,         \* create_submodel_descriptor: the argument
  submodel_descriptors, \* create_submodel_descriptor: the list it builds / returns
  shell_descriptors,    \* fetch_and_post_submodels: local of line 250
  environ,              \* os.environ
  environ0,             \* os.environ before load_env_from_file was entered
  file,                 \* env.txt: [exists, lines]
  env_vars,             \* load_env_from_file: the saved values
  lineno,               \* load_env_from_file: the next line of the file
  DRY_RUN,              \* line 61
  defined,              \* the nested functions main has defined
  http,                 \* every request issued, in order
  summary_printed,      \* lines 278-282 have run
  token,                \* line 257 / 259
  token_resp,           \* get_oauth_token: resp
  ai, si,               \* fetch_and_post_submodels: positions of the two loops
  asset,                \* fetch_and_post_submodels: the outer loop variable
  resp,                 \* fetch_and_post_submodels: resp of line 200
  post_resp,            \* fetch_and_post_submodels: status of post_resp of line 227
  posted_submodels,     \* fetch_and_post_submodels: line 185
  outcomes,             \* every (result_type, label) yielded, in order
  count, posted, skipped_409, failed   \* lines 263-266

envVars == <<environ, environ0, file, env_vars, lineno>>
descrVars == <<submodel_ids, submodel_descriptors>>

vars == <<pc, exc, submodel_ids, submodel_descriptors, shell_descriptors,
          environ, environ0, file, env_vars, lineno, DRY_RUN, defined,
          http, summary_printed, token, token_resp, ai, si, asset, resp, post_resp,
          posted_submodels, outcomes, count, posted, skipped_409, failed>>

counters == <<count, posted, skipped_409, failed>>
orchVars == <<token, token_resp, ai, si, asset, resp, post_resp, posted_submodels,
              outcomes, count, posted, skipped_409, failed>>

NoResponse == [status |-> 0, type |-> "none", id |-> ""]

OrchIdle ==
  /\ token = None
  /\ token_resp = [status |-> 0, access_token |-> None]
  /\ ai = 1
  /\ si = 1
  /\ asset = ""
  /\ resp = NoResponse
  /\ post_resp = 0
  /\ posted_submodels = <<>>
  /\ outcomes = <<>>
  /\ count = 0
  /\ posted = 0
  /\ skipped_409 = 0
  /\ failed = 0

EmptyFun == [k \in {} |-> <<>>]

EnvIdle ==
  /\ environ = EmptyFun
  /\ environ0 = EmptyFun
  /\ file = [exists |-> FALSE, lines |-> <<>>]
  /\ env_vars = EmptyFun
  /\ lineno = 0
  /\ defined = {}

DescrIdle ==
  /\ submodel_ids = [type |-> "list", value |-> <<>>]
  /\ submodel_descriptors = <<>>

(* ---- a call of create_submodel_descriptor on its own ---- *)
\* the str values used as submodel ids
IdStrings == {"a", "ab", "ab?", "ab>", "<u-umlaut>", "<euro>"}

RECURSIVE SeqsUpTo(_, _)
SeqsUpTo(S, n) ==
  IF n = 0 THEN { <<>> }
  ELSE LET shorter == SeqsUpTo(S, n - 1)
       IN shorter \cup { Append(q, x) : q \in { r \in shorter : Len(r) = n - 1 }, x \in S }

InitDescr ==
  /\ pc = "csd_guard"
  /\ exc = None
  /\ submodel_ids \in
       { [type |-> "list", value |-> v] : v \in SeqsUpTo(IdStrings, MaxIds) }
       \cup { [type |-> "str", value |-> <<"a", "b">>] }
  /\ submodel_descriptors = <<>>
  /\ shell_descriptors = <<>>
  /\ EnvIdle
  /\ DRY_RUN = FALSE
  /\ http = <<>>
  /\ summary_printed = FALSE
  /\ OrchIdle

\* lines 140-143
CsdEnter ==
  /\ pc = "csd_guard"
  /\ IF CsdGuardRaises(submodel_ids)
       THEN pc' = "raised" /\ exc' = "ValueError"
       ELSE pc' = "csd_loop" /\ exc' = exc
  /\ submodel_descriptors' = <<>>
  /\ UNCHANGED <<submodel_ids, shell_descriptors, envVars, DRY_RUN, defined, http, summary_printed, orchVars>>

\* lines 145-176: the call runs the loop and returns the list
CsdLoop ==
  /\ pc = "csd_loop"
  /\ submodel_descriptors' = create_submodel_descriptor(submodel_ids.value)
  /\ pc' = "csd_returned"
  /\ UNCHANGED <<exc, submodel_ids, shell_descriptors, envVars, DRY_RUN, defined, http, summary_printed, orchVars>>

NextDescr == CsdEnter \/ CsdLoop

SpecDescr == InitDescr /\ [][NextDescr]_vars

(* ---- main() as it is written, lines 33-139 ---- *)
\* the raw lines env.txt is made of
FileLines ==
  { <<"A", "=", "1">>,
    <<"A", "=", "2">>,
    <<" ", "B", "=", "1", " ">>,
    <<"#", "A", "=", "2">>,
    <<" ">>,
    <<"A">>,
    <<"A", "=", "1", "=", "2">>,
    <<"DRY_RUN", "=", "True">>,
    <<"=", "1">> }

\* the environments main() is started in
StartEnvs ==
  { e \in UNION { [D -> { <<"0">>, <<"true">> }] : D \in SUBSET { <<"A">>, <<"B">>, <<"DRY_RUN">> } } :
      /\ (<<"A">> \in DOMAIN e => e[<<"A">>] = <<"0">>)
      /\ (<<"B">> \in DOMAIN e => e[<<"B">>] = <<"0">>)
      /\ (<<"DRY_RUN">> \in DOMAIN e => e[<<"DRY_RUN">>] = <<"true">>) }

InitMain ==
  /\ pc = "env_open"
  /\ exc = None
  /\ DescrIdle
  /\ shell_descriptors = <<>>
  /\ environ0 \in StartEnvs
  /\ environ = environ0
  /\ file \in { [exists |-> TRUE, lines |-> l] : l \in SeqsUpTo(FileLines, MaxLines) }
              \cup { [exists |-> FALSE, lines |-> <<>>] }
  /\ env_vars = EmptyFun
  /\ lineno = 0
  /\ DRY_RUN = FALSE
  /\ defined = {}
  /\ http = <<>>
  /\ summary_printed = FALSE
  /\ OrchIdle

\* lines 11-13: open(filepath); a missing file raises inside the try
LoadOpen ==
  /\ pc = "env_open"
  /\ env_vars' = EmptyFun
  /\ IF file.exists
       THEN pc' = "env_line" /\ lineno' = 1 /\ exc' = exc
       ELSE pc' = "env_finally" /\ lineno' = lineno /\ exc' = "FileNotFoundError"
  /\ UNCHANGED <<environ, environ0, file, descrVars, shell_descriptors, DRY_RUN,
                 defined, http, summary_printed, orchVars>>

\* lines 14-19: one iteration of the loop over the file
LoadLine ==
  /\ pc = "env_line"
  /\ lineno <= Len(file.lines)
  /\ LET line == strip(file.lines[lineno])
         parts == split(line)
     IN IF ~IsAssignment(line)
          THEN /\ lineno' = lineno + 1
               /\ UNCHANGED <<pc, exc, environ, env_vars>>
        ELSE IF Len(parts) # 2
          THEN \* unpacking at line 17 fails
               /\ exc' = "ValueError"
               /\ pc' = "env_finally"
               /\ UNCHANGED <<lineno, environ, env_vars>>
        ELSE LET key == parts[1]
                 value == parts[2]
             IN /\ env_vars' = setenv(env_vars, key, getenv(environ, key))
                /\ IF key = <<>>
                     THEN \* os.environ[""] = value is refused by putenv
                          /\ exc' = "OSError"
                          /\ pc' = "env_finally"
                          /\ UNCHANGED <<lineno, environ>>
                     ELSE /\ environ' = setenv(environ, key, value)
                          /\ lineno' = lineno + 1
                          /\ UNCHANGED <<pc, exc>>
  /\ UNCHANGED <<environ0, file, descrVars, shell_descriptors, DRY_RUN, defined,
                 http, summary_printed, orchVars>>

\* line 20 and lines 35-80: the body of the with statement
MainWithBody ==
  /\ pc = "env_line"
  /\ lineno > Len(file.lines)
  /\ DRY_RUN' = DryRunOf(environ)
  /\ defined' = defined \cup {"get_oauth_token"}
  /\ pc' = "env_finally"
  /\ UNCHANGED <<exc, envVars, descrVars, shell_descriptors, http, summary_printed, orchVars>>

\* lines 21-26: the finally block, then the exception (if any) leaves main()
LoadFinally ==
  /\ pc = "env_finally"
  /\ environ' = Restore(environ, env_vars)
  /\ pc' = IF exc # None THEN "raised" ELSE "main_defs"
  /\ UNCHANGED <<exc, environ0, file, env_vars, lineno, descrVars, shell_descriptors,
                 DRY_RUN, defined, http, summary_printed, orchVars>>

\* lines 82-139: three def statements, after which main() has no statement left
MainDefs ==
  /\ pc = "main_defs"
  /\ defined' = defined \cup {"create_shell_descriptor", "post_sm_descriptor",
                                "create_submodel_descriptor"}
  /\ pc' = IF OrchestrationOwner = "main" THEN "token" ELSE "main_done"
  /\ UNCHANGED <<exc, envVars, descrVars, shell_descriptors, DRY_RUN, http,
                 summary_printed, orchVars>>

NextMain == LoadOpen \/ LoadLine \/ MainWithBody \/ LoadFinally \/ MainDefs

SpecMain == InitMain /\ [][NextMain]_vars

(* ---- the token step, fetch_and_post_submodels and the tally loop, ---- *)
(* ---- lines 178-282, run from line 254                             ---- *)
\* The block is specified on its own, entered at line 254: SpecMain shows that
\* main() as written never enters it.
\* post_sm_descriptor (lines 109-137) is called nowhere in the file, so no
\* request to DTR_SM_DESCR_URL is ever issued.

\* line 194: the id of one asset and suffix
SmId(a, sfx) == SM_URN_PREFIX \o a \o sfx

\* the source service: the id of the submodel it serves under sm_id (the decoded urn)
SourceSuffix == <<":pcf:1.0.0", ":hs:1.0.0", ":nameplate:1.0.0">>

SourceId(a, k) == "urn:ag.em:sm:" \o a \o SourceSuffix[k]

\* the source service: what a GET of SOURCE_URL/sm_id can answer: an error status,
\* a JSON value that is not an object, or the submodel
SourceResponses(a, k) ==
  { [status |-> 404, type |-> "str", id |-> ""],
    [status |-> 200, type |-> "list", id |-> ""],
    [status |-> 200, type |-> "dict", id |-> SourceId(a, k)] }

\* the destination service: the statuses a POST can answer
DestStatuses == {200, 201, 409, 500}

\* the token endpoint: the answers to the client-credentials request
TokenResponses ==
  { [status |-> st, access_token |-> t] : st \in {200, 401}, t \in {None, "", "tok"} }

\* get_oauth_token without the test of line 78
TokenRequestFailsStatusOnly(r) == r.status # 200

\* lines 73-79 of get_oauth_token: the two raises
TokenRequestFails(r) ==
  \/ r.status # 200
  \/ r.access_token = None
  \/ r.access_token = ""

\* the fetch without the isinstance test of line 216
FetchFailedStatusOnly(r) == r.status # 200

\* lines 207 and 216: the fetch counts as failed
FetchFailed(r) == r.status # 200 \/ r.type # "dict"

\* the loop body without the dry-run branch of line 222
SkipsPostNever(dry) == FALSE

\* line 222: the item is reported as dry_run and not posted
SkipsPost(dry) == dry

\* lines 235-247: the result_type yielded for a status of the destination
PostOutcome(status) ==
  IF status \in {200, 201} THEN "posted"
  ELSE IF status = 409 THEN "skipped"
  ELSE "failed"

\* the 409 branch without the append of line 241
AppendsLabelPostedOnly(status) == status \in {200, 201}

\* lines 237 and 241: the label is appended to posted_submodels
AppendsLabel(status) == status \in {200, 201, 409}

\* lines 270-276: the tally of one yielded pair
TallyPosted(result_type) == IF result_type = "posted" THEN 1 ELSE 0
TallySkipped(result_type) == IF result_type = "skipped" THEN 1 ELSE 0
TallyFailed(result_type) == IF result_type = "failed" THEN 1 ELSE 0

\* a yield of the generator and the iteration of the loop of line 268 it causes
Yield(result_type, label) ==
  /\ outcomes' = Append(outcomes, [type |-> result_type, label |-> label])
  /\ count' = count + 1
  /\ posted' = posted + TallyPosted(result_type)
  /\ skipped_409' = skipped_409 + TallySkipped(result_type)
  /\ failed' = failed + TallyFailed(result_type)

\* the loops of lines 188 and 197 move to the next sm_id
NextItem ==
  IF si < NumSuffixes THEN ai' = ai /\ si' = si + 1
  ELSE ai' = ai + 1 /\ si' = 1

\* a request: the method, the configured url, and the path appended to the url (GET)
\* or the id of the JSON body (POST)
Request(method, endpoint, what) == [method |-> method, endpoint |-> endpoint, what |-> what]

InitOrch ==
  /\ pc = "token"
  /\ exc = None
  /\ DescrIdle
  /\ shell_descriptors = <<>>
  /\ EnvIdle
  /\ DRY_RUN \in BOOLEAN
  /\ http = <<>>
  /\ summary_printed = FALSE
  /\ OrchIdle

\* lines 255-257
TokenSkipped ==
  /\ pc = "token"
  /\ DRY_RUN
  /\ token' = None
  /\ pc' = "fetch"
  /\ UNCHANGED <<exc, descrVars, shell_descriptors, envVars, DRY_RUN, defined, http,
                 summary_printed, token_resp, ai, si, asset, resp, post_resp,
                 posted_submodels, outcomes, counters>>

\* lines 258-260 and get_oauth_token, lines 63-80
TokenRequest ==
  /\ pc = "token"
  /\ ~DRY_RUN
  /\ \E r \in TokenResponses :
       /\ http' = Append(http, Request("POST", "TOKEN_URL", ""))
       /\ token_resp' = r
       /\ IF TokenRequestFails(r)
            THEN exc' = "RuntimeError" /\ pc' = "raised" /\ token' = token
            ELSE exc' = exc /\ pc' = "fetch" /\ token' = r.access_token
  /\ UNCHANGED <<descrVars, shell_descriptors, envVars, DRY_RUN, defined,
                 summary_printed, ai, si, asset, resp, post_resp,
                 posted_submodels, outcomes, counters>>

\* lines 188-225: the GET of one sm_id and what follows it up to the POST
Fetch ==
  /\ pc = "fetch"
  /\ ai <= NumAssets
  /\ LET sm_id == SmId(Assets[ai], Suffixes[si])
     IN \E r \in SourceResponses(Assets[ai], si) :
          /\ asset' = Assets[ai]
          /\ http' = Append(http, Request("GET", "SOURCE_URL", sm_id))
          /\ resp' = r
          /\ IF FetchFailed(r)
               THEN Yield("failed", sm_id) /\ NextItem /\ pc' = pc
             ELSE IF SkipsPost(DRY_RUN)
               THEN Yield("dry_run", r.id) /\ NextItem /\ pc' = pc
             ELSE pc' = "post" /\ UNCHANGED <<outcomes, counters, ai, si>>
  /\ UNCHANGED <<exc, descrVars, shell_descriptors, envVars, DRY_RUN, defined,
                 summary_printed, token, token_resp, post_resp, posted_submodels>>

\* lines 227-247: the POST of the fetched submodel
Post ==
  /\ pc = "post"
  /\ \E status \in DestStatuses :
       /\ http' = Append(http, Request("POST", "DEST_URL", resp.id))
       /\ post_resp' = status
       /\ posted_submodels' = IF AppendsLabel(status)
                                 THEN Append(posted_submodels, resp.id)
                                 ELSE posted_submodels
       /\ Yield(PostOutcome(status), resp.id)
  /\ NextItem
  /\ pc' = "fetch"
  /\ UNCHANGED <<exc, descrVars, shell_descriptors, envVars, DRY_RUN, defined,
                 summary_printed, token, token_resp, asset, resp>>

\* lines 249-252 and 278-282: the descriptors, the last yield and the summary
Finish ==
  /\ pc = "fetch"
  /\ ai > NumAssets
  /\ submodel_ids' = [type |-> "list", value |-> posted_submodels]
  /\ IF CsdGuardRaises(submodel_ids')
       THEN /\ exc' = "ValueError"
            /\ pc' = "raised"
            /\ UNCHANGED <<submodel_descriptors, shell_descriptors, outcomes, counters,
                           summary_printed>>
       ELSE /\ submodel_descriptors' = create_submodel_descriptor(posted_submodels)
            /\ shell_descriptors' =
                 Append(shell_descriptors,
                        create_shell_descriptor(asset, submodel_descriptors'))
            /\ Yield("posted_submodels", posted_submodels)
            /\ summary_printed' = TRUE
            /\ pc' = "done"
            /\ exc' = exc
  /\ UNCHANGED <<envVars, DRY_RUN, defined, http, token, token_resp, ai, si, asset,
                 resp, post_resp, posted_submodels>>

NextOrch == TokenSkipped \/ TokenRequest \/ Fetch \/ Post \/ Finish

SpecOrch == InitOrch /\ [][NextOrch]_vars

(* ======================= properties ======================= *)

NumItems == NumAssets * NumSuffixes

\* the asset and the suffix of the k-th sm_id in the order of the nested loops
ItemAsset(k) == Assets[((k - 1) \div NumSuffixes) + 1]
ItemSuffix(k) == ((k - 1) % NumSuffixes) + 1
ItemSmIds == [k \in 1..NumItems |-> SmId(ItemAsset(k), Suffixes[ItemSuffix(k)])]
ItemSourceIds == [k \in 1..NumItems |-> SourceId(ItemAsset(k), ItemSuffix(k))]
ItemSmId(k) == ItemSmIds[k]
ItemSourceId(k) == ItemSourceIds[k]

\* the number of sm_ids whose outcome has been yielded
Completed == (ai - 1) * NumSuffixes + (si - 1)

IsGet(q) == q.method = "GET"
IsPost(q) == q.method = "POST"
IsItemOutcome(o) == o.type # "posted_submodels"
IsPresent(o) == o.type \in {"posted", "skipped"}

Gets == SelectSeq(http, IsGet)
ItemOutcomes == SelectSeq(outcomes, IsItemOutcome)
Labels(os) == [k \in 1..Len(os) |-> os[k].label]
CountOf(os, t) == Cardinality({k \in 1..Len(os) : os[k].type = t})
Last(q) == q[Len(q)]

\* C1 as stated: in a dry run no POST is issued, every item is classified dry_run
\* and posted, skipped and failed are all zero
C1_AllDryRunAllZero ==
  DRY_RUN =>
    /\ \A j \in 1..Len(http) : ~IsPost(http[j])
    /\ \A k \in 1..Len(outcomes) :
         IsItemOutcome(outcomes[k]) => outcomes[k].type = "dry_run"
    /\ posted = 0 /\ skipped_409 = 0 /\ failed = 0

\* C1 (amended): in a dry run no POST is issued and no token is requested; an item
\* is classified dry_run exactly when its GET answered 200 with an object, and
\* failed otherwise; posted and skipped stay zero and failed counts the failed fetches
C1_DryRunNoPost ==
  DRY_RUN =>
    /\ \A j \in 1..Len(http) : ~IsPost(http[j])
    /\ token = None
    /\ posted_submodels = <<>>
    /\ \A k \in 1..Len(outcomes) :
         \/ outcomes[k] = [type |-> "dry_run", label |-> ItemSourceId(k)]
         \/ outcomes[k] = [type |-> "failed", label |-> ItemSmId(k)]
    /\ outcomes # <<>> =>
         (Last(outcomes).type = "dry_run" <=> (resp.status = 200 /\ resp.type = "dict"))
    /\ posted = 0
    /\ skipped_409 = 0
    /\ failed = CountOf(outcomes, "failed")
    /\ count = Len(outcomes)

C1_Witness ==
  /\ DRY_RUN
  /\ Completed = NumItems
  /\ CountOf(outcomes, "dry_run") >= 1
  /\ CountOf(outcomes, "failed") >= 1

\* C2: one GET per asset and suffix in the order of the nested loops whatever the
\* earlier outcomes were, one outcome per pair, and a POST to the destination only
\* right after the GET of the same pair answered 200 with an object
C2_OneGetPerPairInOrder ==
  LET gets == Gets
      ios == ItemOutcomes
  IN
  /\ Len(gets) = Completed + (IF pc = "post" THEN 1 ELSE 0)
  /\ \A k \in 1..Len(gets) : gets[k] = Request("GET", "SOURCE_URL", ItemSmId(k))
  /\ Len(ios) = Completed
  /\ \A k \in 1..Len(ios) :
       /\ ios[k].type \in {"failed", "dry_run", "posted", "skipped"}
       /\ ios[k].label \in {ItemSmId(k), ItemSourceId(k)}
  /\ \A j \in 1..Len(http) :
       http[j].endpoint = "DEST_URL" =>
         /\ j > 1
         /\ IsGet(http[j - 1])
         /\ \E k \in 1..NumItems :
              /\ http[j - 1].what = ItemSmId(k)
              /\ http[j].what = ItemSourceId(k)
  /\ (http # <<>> /\ Last(http).endpoint = "DEST_URL") =>
       /\ resp.status = 200
       /\ resp.type = "dict"
       /\ resp.id = Last(http).what

C2_Witness ==
  /\ pc = "done"
  /\ \E k, m \in 1..Len(ItemOutcomes) :
       /\ k < m
       /\ ItemOutcomes[k].type = "failed"
       /\ ItemOutcomes[k].label = ItemSmId(k)
       /\ ItemOutcomes[m].type = "posted"
       /\ ItemAsset(k) = ItemAsset(m)

\* C3: a 409 of the destination yields skipped and appends the label; the present
\* list is at every point the labels of the posted and skipped items in processing
\* order, and holds no label of a failed or dry_run item
C3_PresentList ==
  LET ios == ItemOutcomes
  IN
  /\ posted_submodels = Labels(SelectSeq(ios, IsPresent))
  /\ \A k \in 1..Len(ios) :
       ios[k].type \in {"failed", "dry_run"} =>
         \A m \in 1..Len(posted_submodels) : posted_submodels[m] # ios[k].label
  /\ (http # <<>> /\ Last(http).endpoint = "DEST_URL") =>
       /\ post_resp = 409 =>
            /\ Last(ios) = [type |-> "skipped", label |-> resp.id]
            /\ posted_submodels # <<>> /\ Last(posted_submodels) = resp.id
       /\ post_resp \in {200, 201} =>
            /\ Last(ios) = [type |-> "posted", label |-> resp.id]
            /\ posted_submodels # <<>> /\ Last(posted_submodels) = resp.id
       /\ post_resp \notin {200, 201, 409} =>
            Last(ios) = [type |-> "failed", label |-> resp.id]

C3_Witness ==
  /\ Len(posted_submodels) >= 2
  /\ post_resp = 409
  /\ Last(http).endpoint = "DEST_URL"
  /\ CountOf(ItemOutcomes, "failed") >= 1
  /\ CountOf(ItemOutcomes, "posted") >= 1

\* C4 as stated: when the summary is printed, Total is the number of asset and
\* suffix items, and Total = posted + skipped + failed + the dry_run items
C4_TotalIsItemCount ==
  summary_printed =>
    /\ count = NumItems
    /\ count = posted + skipped_409 + failed + CountOf(outcomes, "dry_run")

\* C5 as stated: past the token step a run never ends by raising, whatever the
\* fetch and post outcomes are
C5_NeverRaisesPastToken ==
  exc \in {None, "RuntimeError"}

\* C6: with dry-run disabled, a token answer other than 200, or without a non-empty
\* access_token, ends the run with an error after the token request alone, with no
\* summary; and no GET or POST to the source, destination or directory is issued
\* before a token was obtained
C6_TokenFailureAborts ==
  /\ ( /\ ~DRY_RUN
       /\ token_resp.status # 0
       /\ \/ token_resp.status # 200
          \/ token_resp.access_token = None
          \/ token_resp.access_token = "" ) =>
       /\ pc = "raised"
       /\ exc = "RuntimeError"
       /\ http = <<Request("POST", "TOKEN_URL", "")>>
       /\ outcomes = <<>>
       /\ ~summary_printed
  /\ ( /\ ~DRY_RUN
       /\ \E j \in 1..Len(http) : http[j].endpoint # "TOKEN_URL" ) =>
       /\ http[1] = Request("POST", "TOKEN_URL", "")
       /\ token_resp.status = 200
       /\ token = token_resp.access_token
       /\ token \notin {None, ""}

C6_Witness ==
  /\ ~DRY_RUN
  /\ token_resp = [status |-> 200, access_token |-> ""]
  /\ pc = "raised"

\* C7 as stated: once the posts are done, one shell descriptor per asset is built,
\* with the descriptors of all and only that asset's posted or skipped ids, and
\* outside a dry run it is posted to the directory endpoint
PresentOfAsset(a) ==
  LET ios == ItemOutcomes
      idx == {k \in 1..Len(ios) : IsPresent(ios[k]) /\ ItemAsset(k) = a}
  IN {ios[k].label : k \in idx}

C7_ShellPerAsset ==
  pc = "done" =>
    /\ Len(shell_descriptors) = NumAssets
    /\ \A a \in 1..NumAssets :
         /\ shell_descriptors[a].idShort = Assets[a]
         /\ shell_descriptors[a].globalAssetId = Assets[a]
         /\ { d.id : d \in { shell_descriptors[a].submodelDescriptors[n] :
                               n \in 1..Len(shell_descriptors[a].submodelDescriptors) } }
              = PresentOfAsset(Assets[a])
    /\ ~DRY_RUN =>
         Cardinality({j \in 1..Len(http) : http[j].endpoint = "DTR_SM_DESCR_URL"}) = NumAssets

\* C8 as stated: for a non-empty list create_submodel_descriptor returns one
\* descriptor per id, in input order, with that id and the href
\* DATA_PLANE_URL/base64url(id)
C8_OneDescriptorPerId ==
  pc = "csd_returned" =>
    /\ Len(submodel_descriptors) = Len(submodel_ids.value)
    /\ \A n \in 1..Len(submodel_ids.value) :
         /\ submodel_descriptors[n].id = submodel_ids.value[n]
         /\ submodel_descriptors[n].endpoints[1].protocolInformation.href
              = <<DATA_PLANE_URL, "/">> \o to_base64url(submodel_ids.value[n])

\* C9 as stated: when the scope of load_env_from_file has been left, normally or
\* by an error, the environment is the one the scope was entered with
C9_EnvironmentRestored ==
  pc \in {"main_defs", "main_done", "raised"} => environ = environ0

\* C10: main() as written issues no request and prints no summary: it loads the
\* environment, defines the four nested functions, calls none of them and never
\* enters the token step, the fetch loop or the tally loop
C10_MainDoesNothing ==
  /\ http = <<>>
  /\ ~summary_printed
  /\ outcomes = <<>>
  /\ count = 0
  /\ pc \in {"env_open", "env_line", "env_finally", "main_defs", "main_done", "raised"}
  /\ pc = "main_done" =>
       defined = {"get_oauth_token", "create_shell_descriptor", "post_sm_descriptor",
                  "create_submodel_descriptor"}

C10_Witness ==
  /\ pc = "main_done"
  /\ ~DRY_RUN
  /\ Cardinality(defined) = 4
  /\ Len(file.lines) = MaxLines

====
